---- MODULE Spec2Model ----
(***************************************************************************)
(* Model of the protein feature viewer.                                    *)
(*                                                                         *)
(* Part I  : ProteinCategoryFTViewer (pftv-aux-proteinCategoryFTViewer):   *)
(*           the category/type track hierarchy with its selection, zoom,   *)
(*           translation and open/close state.                             *)
(* Part II : FeaturesViewer.prototype.highlightRegion.                     *)
(* Part III: FeaturesViewer.prototype.selectFeature and findFeature.       *)
(* Part IV : fv.load and loadSources.                                      *)
(***************************************************************************)
EXTENDS Integers, Sequences, FiniteSets, TLC

(***************************************************************************)
(* Bounds of the model.                                                    *)
(***************************************************************************)
\* moveToAA arguments are drawn from 0..MaxMoveToAA and undefined
MaxMoveToAA == 1
\* the features of every type: one location list with one feature
FeatureIndexes == {0}
\* the two category instances the page creates
Categories == {1, 2}
\* number of types of every category
NumTypes == 2
TypeIndexes == 0..(NumTypes - 1)
\* sequence lengths: one short enough for the pixel-per-AA cap, one not
SeqLens == {1, 3}
\* length of the sequence the FeaturesViewer has loaded
MaxFvSeqLen == 3
\* number of features the FeaturesViewer can have selected
NumFvFeatures == 1

(***************************************************************************)
(* Values of FTVUtils (pftv-aux-utils) and of the options.                 *)
(***************************************************************************)
MaxPixelAA == 15
MarginLeft == 10
MarginRight == 10
TitlesWidth == 100
\* opt.width: the width given to every instance
OptWidth == TitlesWidth + 50

UndefinedAA == 0 - 1
UndefinedFeature == [cat |-> 0, typeIndex |-> 0, featureIndex |-> 0]
UndefinedElem == [ftId |-> <<0, 0, 0>>, index |-> 0]
\* what document.getElementById returns when no element has the id
NullElem == [ftId |-> <<0, 0, 0>>, index |-> 0 - 1]

Features == [cat : Categories, typeIndex : TypeIndexes, featureIndex : FeatureIndexes]
MoveToAAs == (0..MaxMoveToAA) \cup {UndefinedAA}

VARIABLES
    instanceArray,   \* _instanceArray: every instance ever constructed, in order
    protoInstances,  \* ProteinCategoryFTViewer.prototype._instances
    selected,        \* feature.selected of every feature object of the data
    seqLen,          \* opt.sequence.length, the same for every instance
    events,          \* the events triggered by the last call, in order
    before,          \* history: the target of a zoomInOut() without argument, if
                     \* the last call was one, and its state before that call
                     \* (and before the call preceding it, if that was one too)
    lastOpenClose,   \* history: last categoryOpen/categoryClose event per instance
    fv               \* the FeaturesViewer (Part II)

vars == <<instanceArray, protoInstances, selected, seqLen, events, before,
          lastOpenClose, fv>>

(***************************************************************************)
(* Part I. ProteinCategoryFTViewer                                         *)
(***************************************************************************)

\* feature.ftId: unique for every feature of the data
FtId(f) == <<f.cat, f.typeIndex, f.featureIndex>>

\* FTVUtils.getTrackMode(category) === trackModes.type
IsType(self) == self.mode = "type"

\* features an instance paints: a category all of its features, a type its own
Paints(self, f) ==
    /\ f.cat = self.categoryIndex
    /\ (IsType(self) => f.typeIndex = self.typeIndex)

\* document.getElementById(ID_CLASS_PREFIX + ftId + "_index_" + myArrayIndex)
GetElementById(I, ftId, index) ==
    IF /\ index \in DOMAIN I
       /\ \E f \in Features : FtId(f) = ftId /\ Paints(I[index], f)
    THEN [ftId |-> ftId, index |-> index]
    ELSE NullElem

\* _initScale: the overview scale, capped at getMaxPixelAA() pixels per amino acid.
\* xRange is the width of the range of _xScale (its domain is [1, sequenceLength+1]).
InitScale(self) ==
    LET range == self.svgWidthWithMargin - MarginLeft - MarginRight
    IN  IF range > MaxPixelAA * seqLen
        THEN [self EXCEPT !.svgWidthWithMargin = MarginLeft + seqLen * MaxPixelAA + MarginRight,
                          !.xRange = seqLen * MaxPixelAA]
        ELSE [self EXCEPT !.xRange = range]

\* Pixel values are kept multiplied by PixelDen so that they stay integers:
\* _xScale(x) = MarginLeft + (x - 1) * xRange / seqLen.
PixelDen == seqLen * MaxPixelAA

\* firstMaxVisiblePixel of _translate (lines 553-556), multiplied by PixelDen:
\* -(xScale(sequence.length - usablePixels / MaxPixelAA))
FirstMaxVisiblePixel(self) ==
    LET usablePixels == self.svgWidthWithMargin - MarginLeft - MarginRight - MaxPixelAA
    IN  0 - (MarginLeft * PixelDen
             + (seqLen * MaxPixelAA - usablePixels - MaxPixelAA) * self.xRange)

\* _translate with propagateToTypes false (lines 548-566): the instance's own move
TranslateSelf(self, moveToAA) ==
    IF self.zoomed = FALSE
    THEN [self EXCEPT !.xPan = 0, !.currentFirstVisibleAA = 0]
    ELSE IF moveToAA # UndefinedAA /\ moveToAA # self.currentFirstVisibleAA
    THEN LET firstMaxVisiblePixel == FirstMaxVisiblePixel(self)
             \* -(xScale(moveToAA) - margin.left) * PixelDen
             xPan == 0 - ((moveToAA - 1) * self.xRange * MaxPixelAA)
         IN  [self EXCEPT
                !.xPan = IF firstMaxVisiblePixel <= xPan /\ xPan <= 0 THEN xPan
                         ELSE IF firstMaxVisiblePixel > xPan THEN firstMaxVisiblePixel
                         ELSE 0,
                !.currentFirstVisibleAA = moveToAA]
    ELSE self

\* faulty variant: the _zoomed flag and the scale are left as they are
ZoomInOutSelfNoFlip(self, moveToAA) ==
    IF moveToAA # UndefinedAA THEN TranslateSelf(self, moveToAA)
    ELSE [self EXCEPT !.xPan = 0, !.currentFirstVisibleAA = 0]

\* _zoomInOut with propagateToTypes false (lines 499-528), events apart
ZoomInOutSelf(self, moveToAA) ==
    LET flipped ==
            IF self.zoomed = FALSE
            THEN [self EXCEPT !.svgWidthWithMargin = OptWidth - TitlesWidth,
                              !.xRange = seqLen * MaxPixelAA,
                              !.zoomed = TRUE]
            ELSE [InitScale([self EXCEPT !.svgWidthWithMargin = OptWidth - TitlesWidth])
                    EXCEPT !.zoomed = FALSE]
    IN  IF moveToAA # UndefinedAA
        THEN TranslateSelf(flipped, moveToAA)
        ELSE [flipped EXCEPT !.xPan = 0, !.currentFirstVisibleAA = 0]

\* the state given to a type instance before zoom/translation is propagated to it
\* (lines 494-495 and 543-544)
CopyView(instance, self) ==
    [instance EXCEPT !.zoomed = self.zoomed,
                     !.currentFirstVisibleAA = self.currentFirstVisibleAA]

\* the instances of self._instances: the array of the prototype, which no
\* instance ever replaces by an array of its own
InstancesOf(self) == protoInstances

SeqRange(s) == {s[k] : k \in DOMAIN s}

\* _constructor for the options of lines 610-625 or of the page
\* (owner is the category whose featureClicked listener is registered on a
\* type instance at lines 628-630, 0 for an instance the page created)
NewInstance(mode, categoryIndex, typeIndex, clickable, collapsible, owner) ==
    InitScale([mode |-> mode,
               categoryIndex |-> categoryIndex,
               typeIndex |-> typeIndex,
               owner |-> owner,
               clickable |-> clickable,
               collapsible |-> IF mode = "type" THEN FALSE ELSE collapsible,
               zoomed |-> FALSE,
               currentFirstVisibleAA |-> 0,
               xPan |-> 0,
               xRange |-> 0,
               svgWidthWithMargin |-> OptWidth - TitlesWidth,
               arrowRight |-> IF mode = "type" THEN FALSE ELSE collapsible,
               hasBeenOpen |-> FALSE,
               currentSelectedFeature |-> UndefinedFeature,
               currentSelectedSVG |-> UndefinedElem])

MaxInstances == Cardinality(Categories) * (1 + NumTypes)

NoBefore ==
    [target |-> 0, zoomed |-> FALSE, xRange |-> 0, xPan |-> 0,
     double |-> FALSE, zoomed2 |-> FALSE, xRange2 |-> 0, xPan2 |-> 0]

\* the history kept over a zoomInOut(moveToAA) call on category c: the state of c
\* before the call and, when the call before it was a zoomInOut() on c too,
\* the state of c before that one
Snapshot(I, c, moveToAA) ==
    IF moveToAA = UndefinedAA
    THEN [target |-> c, zoomed |-> I[c].zoomed, xRange |-> I[c].xRange, xPan |-> I[c].xPan,
          double |-> before.target = c,
          zoomed2 |-> IF before.target = c THEN before.zoomed ELSE FALSE,
          xRange2 |-> IF before.target = c THEN before.xRange ELSE 0,
          xPan2 |-> IF before.target = c THEN before.xPan ELSE 0]
    ELSE NoBefore

\* the FeaturesViewer is not part of the category component
NoViewer == [sequenceLength |-> 0]

\* the state after the page has constructed its category instances with the
\* options opts[c] (clickable, collapsible)
InitWith(opts) ==
    /\ seqLen \in SeqLens
    /\ instanceArray = [c \in 1..Cardinality(Categories) |->
                          NewInstance("category", c, 0, opts[c].clickable,
                                      opts[c].collapsible, 0)]
    /\ protoInstances = <<>>
    /\ selected = [f \in Features |-> FALSE]
    /\ events = <<>>
    /\ before = NoBefore
    /\ lastOpenClose = [i \in 1..MaxInstances |-> "none"]
    /\ fv = NoViewer

\* a page on which category 1 may be collapsible and category 2 is not
InitCat ==
    \E clickable \in BOOLEAN, collapsible \in BOOLEAN :
        InitWith([c \in Categories |->
                    [clickable |-> clickable,
                     collapsible |-> IF c = 1 THEN collapsible ELSE FALSE]])

\* a page on which every category is collapsible
InitTwo ==
    \E clickable \in BOOLEAN :
        InitWith([c \in Categories |-> [clickable |-> clickable, collapsible |-> TRUE]])

\* self.opt.category.types[typeIndex].locations[locationIndex].features[featureIndex]
\* (lines 463-472): the feature object of this instance's data at the clicked indexes
LookupFeature(self, f) ==
    [cat |-> self.categoryIndex, typeIndex |-> f.typeIndex, featureIndex |-> f.featureIndex]

\* faulty variant: the previous selection is never undone
OnInstanceFeatureClickKeepPrevious(I, sel, s, f, svgElem) ==
    IF I[s].clickable # TRUE
    THEN [I |-> I, sel |-> sel, ev |-> <<>>]
    ELSE [I |-> [I EXCEPT ![s].currentSelectedFeature = LookupFeature(I[s], f),
                          ![s].currentSelectedSVG = svgElem],
          sel |-> [sel EXCEPT ![f] = TRUE],
          ev |-> <<[name |-> "featureSelected", source |-> s, feature |-> f]>>]

\* faulty variant: a click on the selected feature leaves it selected
OnInstanceFeatureClickNoDeselect(I, sel, s, f, svgElem) ==
    IF I[s].clickable # TRUE \/ sel[f] = TRUE
    THEN [I |-> I, sel |-> sel, ev |-> <<>>]
    ELSE OnInstanceFeatureClickKeepPrevious(I, sel, s, f, svgElem)

\* _onInstanceFeatureClick(self, {feature: f, svgElem: svgElem}) on the world
\* (I, sel); gives the new world and the events triggered, in order
OnInstanceFeatureClick(I, sel, s, f, svgElem) ==
    LET self == I[s]
        cur == self.currentSelectedFeature
    IN  IF self.clickable # TRUE
        THEN [I |-> I, sel |-> sel, ev |-> <<>>]
        ELSE IF sel[f] = TRUE \/ (cur # UndefinedFeature /\ FtId(f) = FtId(cur))
        THEN IF cur = UndefinedFeature
             THEN \* line 449 throws a TypeError after line 448
                  [I |-> I, sel |-> [sel EXCEPT ![f] = FALSE], ev |-> <<>>]
             ELSE [I |-> [I EXCEPT ![s].currentSelectedFeature = UndefinedFeature,
                                   ![s].currentSelectedSVG = UndefinedElem],
                   sel |-> [sel EXCEPT ![f] = FALSE, ![cur] = FALSE],
                   ev |-> <<[name |-> "featureUnselected", source |-> s, feature |-> f]>>]
        ELSE LET new == LookupFeature(self, f)
                 sel1 == IF cur # UndefinedFeature THEN [sel EXCEPT ![cur] = FALSE] ELSE sel
                 ev1 == IF cur # UndefinedFeature
                        THEN <<[name |-> "featureUnselected", source |-> s, feature |-> cur]>>
                        ELSE <<>>
             IN  [I |-> [I EXCEPT ![s].currentSelectedFeature = new,
                                  ![s].currentSelectedSVG = svgElem],
                  sel |-> [sel1 EXCEPT ![f] = TRUE, ![new] = TRUE],
                  ev |-> ev1 \o <<[name |-> "featureSelected", source |-> s, feature |-> new]>>]

\* is the category open, i.e. does its title not start with ARROW_RIGHT
IsOpen(self) == self.collapsible = TRUE /\ self.arrowRight = FALSE

\* _showHideElements: the track of a category is displayed while it is closed,
\* the tracks of its types while it is open
Visible(I, i) ==
    IF IsType(I[i]) THEN IsOpen(I[I[i].owner]) ELSE ~IsOpen(I[i])

\* faulty variant: featureClicked triggered before the selection is updated
OnClickFeatureClickedFirst(I, sel, i, f) ==
    LET r1 == OnInstanceFeatureClick(I, sel, i, f, [ftId |-> FtId(f), index |-> i])
    IN  [r1 EXCEPT !.ev = <<[name |-> "featureClicked", source |-> i, feature |-> f]>> \o @]

\* _onClickFeature(self, caller, feature), with the featureClicked listener the
\* owner category registered on a type instance (lines 628-630)
OnClickFeature(I, sel, i, f) ==
    LET svgElem == [ftId |-> FtId(f), index |-> i]
        r1 == OnInstanceFeatureClick(I, sel, i, f, svgElem)
        clicked == <<[name |-> "featureClicked", source |-> i, feature |-> f]>>
    IN  IF I[i].owner # 0
        THEN LET r2 == OnInstanceFeatureClick(r1.I, r1.sel, I[i].owner, f, svgElem)
             IN  [r2 EXCEPT !.ev = r1.ev \o clicked \o @]
        ELSE [r1 EXCEPT !.ev = @ \o clicked]

\* a click on the element of feature f in the track of instance i
ClickFeature(i, f) ==
    /\ i \in DOMAIN instanceArray
    /\ Paints(instanceArray[i], f)
    /\ Visible(instanceArray, i)
    /\ LET r == OnClickFeature(instanceArray, selected, i, f)
       IN  /\ instanceArray' = r.I
           /\ selected' = r.sel
           /\ events' = r.ev
    /\ before' = NoBefore
    /\ UNCHANGED <<protoInstances, seqLen, lastOpenClose, fv>>


\* faulty variant: nothing is propagated
PropagateToNone(I, s, moveToAA, zoom) == I

\* the propagation loops of _zoomInOut (lines 492-498) and _translate (541-547)
\* over self._instances; Step is the call made on each instance
Propagate(I, s, moveToAA, zoom) ==
    [j \in DOMAIN I |->
        IF j \in SeqRange(InstancesOf(I[s]))
        THEN IF zoom THEN ZoomInOutSelf(CopyView(I[j], I[s]), moveToAA)
                     ELSE TranslateSelf(CopyView(I[j], I[s]), moveToAA)
        ELSE I[j]]

\* the zoom event _zoomInOut triggers when triggerEvent is not false (509-520)
ZoomEvents(I, s) ==
    <<[name |-> IF I[s].zoomed THEN "zoomIn" ELSE "zoomOut",
       source |-> s, feature |-> UndefinedFeature]>>

\* zoomInOut(moveToAA) on category c: _zoomInOut(this, moveToAA, true, true)
ZoomInOut(c, moveToAA) ==
    /\ c \in Categories
    /\ LET I1 == Propagate(instanceArray, c, moveToAA, TRUE)
           I2 == [I1 EXCEPT ![c] = ZoomInOutSelf(I1[c], moveToAA)]
       IN  /\ instanceArray' = I2
           /\ events' = ZoomEvents(I2, c)
    /\ before' = Snapshot(instanceArray, c, moveToAA)
    /\ UNCHANGED <<protoInstances, selected, seqLen, lastOpenClose, fv>>

\* translate(moveToAA) on category c: _translate(this, moveToAA, true)
Translate(c, moveToAA) ==
    /\ c \in Categories
    /\ LET I1 == Propagate(instanceArray, c, moveToAA, FALSE)
       IN  instanceArray' = [I1 EXCEPT ![c] = TranslateSelf(I1[c], moveToAA)]
    /\ events' = <<>>
    /\ before' = NoBefore
    /\ UNCHANGED <<protoInstances, selected, seqLen, lastOpenClose, fv>>

\* _buildTypeInstances(self, types) from type posType on, on the world (I, P):
\* P is the array self._instances.push appends to
RECURSIVE BuildTypeInstances(_, _, _, _)
BuildTypeInstances(I, P, s, posType) ==
    IF posType >= NumTypes
    THEN [I |-> I, P |-> P]
    ELSE LET self == I[s]
             idx == Len(I) + 1
             base == NewInstance("type", self.categoryIndex, posType, FALSE, FALSE, s)
             myInstance ==
                 IF self.zoomed = TRUE
                 THEN ZoomInOutSelf([base EXCEPT !.zoomed = FALSE,
                                                 !.currentFirstVisibleAA = 0],
                                    self.currentFirstVisibleAA)
                 ELSE CopyView(base, self)
             I1 == Append(I, myInstance)
             cur == self.currentSelectedFeature
             I2 == IF cur # UndefinedFeature /\ cur.typeIndex = posType
                   THEN [I1 EXCEPT ![s].currentSelectedSVG = GetElementById(I1, FtId(cur), idx)]
                   ELSE I1
         IN  BuildTypeInstances(I2, Append(P, idx), s, posType + 1)

\* _.find(self._instances, function(type, posType) {
\*     return self._currentSelectedFeature.typeIndex === posType; })   (591-593)
\* gives the index in _instanceArray of the instance found, 0 for undefined
FindMyInstance(I, s) ==
    LET P == InstancesOf(I[s])
        pos == I[s].currentSelectedFeature.typeIndex + 1
    IN  IF pos \in DOMAIN P THEN P[pos] ELSE 0

\* _openCategory(self)
OpenCategory(I, P, s) ==
    IF I[s].hasBeenOpen # TRUE
    THEN BuildTypeInstances([I EXCEPT ![s].hasBeenOpen = TRUE], P, s, 0)
    ELSE IF I[s].currentSelectedFeature # UndefinedFeature /\ FindMyInstance(I, s) # 0
    THEN [I |-> [I EXCEPT ![s].currentSelectedSVG =
                    GetElementById(I, FtId(I[s].currentSelectedFeature), FindMyInstance(I, s))],
          P |-> P]
    ELSE [I |-> I, P |-> P]

\* _closeCategory(self)
CloseCategory(I, s) ==
    IF I[s].currentSelectedFeature # UndefinedFeature
    THEN [I EXCEPT ![s].currentSelectedSVG =
                GetElementById(I, FtId(I[s].currentSelectedFeature), s)]
    ELSE I

\* faulty variant: open() acts whatever the title shows
CanOpenAlways(self) == TRUE

\* does open() (resp. close()) on this instance have an effect (903-905, 918-920)
CanOpen(self) == self.collapsible = TRUE /\ self.arrowRight = TRUE

CanClose(self) == self.collapsible = TRUE /\ self.arrowRight # TRUE

\* ProteinCategoryFTViewer.prototype.open on the world (I, P)
DoOpen(I, P, i) ==
    IF CanOpen(I[i])
    THEN LET r == OpenCategory([I EXCEPT ![i].arrowRight = FALSE], P, i)
         IN  [I |-> r.I, P |-> r.P,
              ev |-> <<[name |-> "categoryOpen", source |-> i, feature |-> UndefinedFeature]>>]
    ELSE [I |-> I, P |-> P, ev |-> <<>>]

\* ProteinCategoryFTViewer.prototype.close on the world (I, P)
DoClose(I, P, i) ==
    IF CanClose(I[i])
    THEN [I |-> CloseCategory([I EXCEPT ![i].arrowRight = TRUE], i), P |-> P,
          ev |-> <<[name |-> "categoryClose", source |-> i, feature |-> UndefinedFeature]>>]
    ELSE [I |-> I, P |-> P, ev |-> <<>>]

\* the last categoryOpen/categoryClose event of every instance, after events ev
RecordOpenClose(ev) ==
    [i \in 1..MaxInstances |->
        IF \E k \in DOMAIN ev : ev[k].source = i /\ ev[k].name \in {"categoryOpen", "categoryClose"}
        THEN (CHOOSE e \in SeqRange(ev) : e.source = i).name
        ELSE lastOpenClose[i]]

Apply(r) ==
    /\ instanceArray' = r.I
    /\ protoInstances' = r.P
    /\ events' = r.ev
    /\ lastOpenClose' = RecordOpenClose(r.ev)
    /\ before' = NoBefore
    /\ UNCHANGED <<selected, seqLen, fv>>

\* open() called on instance i
Open(i) ==
    /\ i \in DOMAIN instanceArray
    /\ Apply(DoOpen(instanceArray, protoInstances, i))

\* close() called on instance i
Close(i) ==
    /\ i \in DOMAIN instanceArray
    /\ Apply(DoClose(instanceArray, protoInstances, i))

\* a click on the title of instance i (lines 309-318)
TitleClick(i) ==
    /\ i \in DOMAIN instanceArray
    /\ IF instanceArray[i].collapsible = TRUE
       THEN IF instanceArray[i].arrowRight = TRUE
            THEN Apply(DoOpen(instanceArray, protoInstances, i))
            ELSE Apply(DoClose(instanceArray, protoInstances, i))
       ELSE Apply([I |-> instanceArray, P |-> protoInstances, ev |-> <<>>])

NextCat ==
    \/ \E i \in 1..MaxInstances, f \in Features : ClickFeature(i, f)
    \/ \E c \in Categories, m \in MoveToAAs : ZoomInOut(c, m)
    \/ \E c \in Categories, m \in MoveToAAs : Translate(c, m)
    \/ \E i \in 1..MaxInstances : Open(i)
    \/ \E i \in 1..MaxInstances : Close(i)
    \/ \E i \in 1..MaxInstances : TitleClick(i)

Spec == InitCat /\ [][NextCat]_vars


\* the component on a page on which every category is collapsible
SpecTwo == InitTwo /\ [][NextCat]_vars

\* the zoom, translate, open and close calls when zoomInOut and translate are
\* called on category 1 only (open and close are called on any instance)
NextOne ==
    \/ \E m \in MoveToAAs : ZoomInOut(1, m)
    \/ \E m \in MoveToAAs : Translate(1, m)
    \/ \E i \in 1..MaxInstances : Open(i)
    \/ \E i \in 1..MaxInstances : Close(i)
    \/ \E i \in 1..MaxInstances : TitleClick(i)

SpecOne == InitTwo /\ [][NextOne]_vars

(***************************************************************************)
(* Claims about ProteinCategoryFTViewer                                    *)
(***************************************************************************)

EventsNamed(ev, names) == SelectSeq(ev, LAMBDA e : e.name \in names)
EventsOf(ev, names, i) == SelectSeq(ev, LAMBDA e : e.name \in names /\ e.source = i)

SelectedOf(c) == {f \in Features : f.cat = c /\ selected[f] = TRUE}
TypesOf(I, c) == {j \in DOMAIN I : I[j].owner = c}

\* C1: in a clickable category at most one feature has selected === true, that
\* feature is _currentSelectedFeature, and when no feature is selected
\* _currentSelectedFeature and _currentSelectedSVG are undefined.
C1_SingleSelection ==
    \A c \in Categories :
        instanceArray[c].clickable = TRUE =>
            /\ Cardinality(SelectedOf(c)) <= 1
            /\ SelectedOf(c) # {} =>
                   SelectedOf(c) = {instanceArray[c].currentSelectedFeature}
            /\ SelectedOf(c) = {} =>
                   /\ instanceArray[c].currentSelectedFeature = UndefinedFeature
                   /\ instanceArray[c].currentSelectedSVG = UndefinedElem

\* a selection was moved from one feature to another by a click on a type track
C1_Witness ==
    \E c \in Categories :
        /\ instanceArray[c].clickable = TRUE
        /\ Cardinality(SelectedOf(c)) = 1
        /\ Len(EventsOf(events, {"featureUnselected"}, c)) = 1
        /\ Len(EventsOf(events, {"featureSelected"}, c)) = 1
        /\ \E j \in TypesOf(instanceArray, c) :
               Len(EventsOf(events, {"featureClicked"}, j)) = 1

\* C2: a selected feature stays selected over every call that is not a feature
\* click, and a click on the selected feature of a clickable category deselects
\* it: no feature of the category is selected afterwards, and the click triggered
\* exactly one featureUnselected and no featureSelected event.
C2_Step ==
    /\ \A f \in Features :
           (selected[f] = TRUE /\ EventsNamed(events', {"featureClicked"}) = <<>>)
               => selected'[f] = TRUE
    /\ \A k \in DOMAIN events' :
           LET e == events'[k]
               i == IF instanceArray[e.source].owner # 0
                    THEN instanceArray[e.source].owner ELSE e.source
           IN  (/\ e.name = "featureClicked"
                /\ instanceArray[i].clickable = TRUE
                /\ selected[e.feature] = TRUE)
               => /\ \A g \in Features : g.cat = e.feature.cat => selected'[g] = FALSE
                  /\ instanceArray'[i].currentSelectedFeature = UndefinedFeature
                  /\ Len(EventsNamed(events', {"featureUnselected"})) = 1
                  /\ EventsNamed(events', {"featureSelected"}) = <<>>

C2_SelectToggle == [][C2_Step]_vars

\* the selected feature was clicked again on a type track and is now deselected
C2_Witness ==
    \E c \in Categories :
        /\ instanceArray[c].clickable = TRUE
        /\ SelectedOf(c) = {}
        /\ Len(EventsOf(events, {"featureUnselected"}, c)) = 1
        /\ \E j \in TypesOf(instanceArray, c) :
               Len(EventsOf(events, {"featureClicked"}, j)) = 1

\* C3 (under SpecOne): every type instance category 1 has created has the
\* _zoomed flag and the _currentFirstVisibleAA of category 1.
C3_TypesFollowCategory ==
    \A j \in TypesOf(instanceArray, 1) :
        /\ instanceArray[j].zoomed = instanceArray[1].zoomed
        /\ instanceArray[j].currentFirstVisibleAA = instanceArray[1].currentFirstVisibleAA

\* category 1 is zoomed in and moved, and so are the types it has created
C3_Witness ==
    /\ TypesOf(instanceArray, 1) # {}
    /\ instanceArray[1].zoomed = TRUE
    /\ instanceArray[1].currentFirstVisibleAA > 0
    /\ \A j \in TypesOf(instanceArray, 1) :
           instanceArray[j].zoomed = TRUE /\ instanceArray[j].currentFirstVisibleAA > 0

\* C4: open() has an effect only on a closed collapsible category and close()
\* only on an open one; the title arrow of an instance changes exactly when it
\* triggers one categoryOpen or categoryClose event; the two events alternate
\* per category, starting with categoryOpen; a non-collapsible instance
\* triggers neither.
C4_Step ==
    \A i \in DOMAIN instanceArray :
        LET oc == EventsOf(events', {"categoryOpen", "categoryClose"}, i)
        IN  /\ Len(oc) <= 1
            /\ (instanceArray'[i].arrowRight # instanceArray[i].arrowRight) <=> Len(oc) = 1
            /\ instanceArray'[i].hasBeenOpen # instanceArray[i].hasBeenOpen => Len(oc) = 1
            /\ (Len(oc) = 1 /\ oc[1].name = "categoryOpen") =>
                   /\ instanceArray[i].collapsible = TRUE
                   /\ instanceArray[i].arrowRight = TRUE
                   /\ lastOpenClose[i] \in {"none", "categoryClose"}
            /\ (Len(oc) = 1 /\ oc[1].name = "categoryClose") =>
                   /\ instanceArray[i].collapsible = TRUE
                   /\ instanceArray[i].arrowRight = FALSE
                   /\ lastOpenClose[i] = "categoryOpen"

C4_OpenCloseAlternate == [][C4_Step]_vars

\* a category that has been opened and closed, with its type instances built
C4_Witness ==
    \E c \in Categories :
        /\ lastOpenClose[c] = "categoryClose"
        /\ EventsOf(events, {"categoryClose"}, c) # <<>>
        /\ TypesOf(instanceArray, c) # {}
        /\ \A j \in TypesOf(instanceArray, c) : lastOpenClose[j] = "none"

\* the state of category c the other categories must leave alone: the view of
\* c and of its type instances, and its list of type instances
FamilyView(I, P, c) ==
    [own |-> <<I[c].zoomed, I[c].currentFirstVisibleAA>>,
     types |-> {<<j, I[j].zoomed, I[j].currentFirstVisibleAA>> : j \in TypesOf(I, c)},
     list |-> P]

\* C5: a call on one category leaves the _zoomed flag, the
\* _currentFirstVisibleAA and the list of type instances of every other
\* category, and of the other categories' type instances, unchanged: no call
\* changes them for two categories at once.
C5_Step ==
    Cardinality({c \in Categories :
                    FamilyView(instanceArray', protoInstances', c)
                        # FamilyView(instanceArray, protoInstances, c)}) <= 1

C5_Independent == [][C5_Step]_vars

\* the element of feature f in the type instance of category c showing f's type
TypeElement(I, c, f) ==
    LET own == {j \in TypesOf(I, c) : I[j].typeIndex = f.typeIndex}
    IN  IF own = {} THEN NullElem
        ELSE [ftId |-> FtId(f), index |-> CHOOSE j \in own : TRUE]

\* C6: when a feature is selected, after open() _currentSelectedSVG is the
\* element of that feature in the type instance of this category showing the
\* feature's type, after close() it is its element in the category's own
\* track; open and close leave the selected feature unchanged.
C6_Step ==
    \A c \in Categories :
        LET cur == instanceArray[c].currentSelectedFeature
        IN  /\ (cur # UndefinedFeature /\ EventsOf(events', {"categoryOpen"}, c) # <<>>) =>
                   /\ instanceArray'[c].currentSelectedFeature = cur
                   /\ instanceArray'[c].currentSelectedSVG = TypeElement(instanceArray', c, cur)
            /\ (cur # UndefinedFeature /\ EventsOf(events', {"categoryClose"}, c) # <<>>) =>
                   /\ instanceArray'[c].currentSelectedFeature = cur
                   /\ instanceArray'[c].currentSelectedSVG = [ftId |-> FtId(cur), index |-> c]

C6_SelectionFollowsOpenClose == [][C6_Step]_vars

\* C7: a zoomInOut call on a category flips its _zoomed flag and triggers
\* exactly one event, on the category: zoomIn when it is then zoomed in,
\* zoomOut when zoomed out; after two consecutive zoomInOut() calls the
\* _zoomed flag and the pixel-per-amino-acid scale are those before the two
\* calls and the horizontal translation is zero.
C7_Step ==
    EventsNamed(events', {"zoomIn", "zoomOut"}) # <<>> =>
        /\ Len(events') = 1
        /\ events'[1].source \in Categories
        /\ instanceArray'[events'[1].source].zoomed = ~instanceArray[events'[1].source].zoomed
        /\ events'[1].name = IF instanceArray'[events'[1].source].zoomed THEN "zoomIn" ELSE "zoomOut"
        /\ before'.double =>
               /\ instanceArray'[before'.target].zoomed = before'.zoomed2
               /\ instanceArray'[before'.target].xRange = before'.xRange2
               /\ instanceArray'[before'.target].xPan = 0
               /\ instanceArray'[before'.target].currentFirstVisibleAA = 0

C7_ZoomFlips == [][C7_Step]_vars

\* a zoomed-in category with type instances, zoomed out and in again by two
\* consecutive zoomInOut() calls
C7_Witness ==
    /\ before.double
    /\ before.zoomed2 = TRUE
    /\ instanceArray[before.target].zoomed = TRUE
    /\ EventsOf(events, {"zoomIn"}, before.target) # <<>>
    /\ TypesOf(instanceArray, before.target) # {}

\* C8: every feature click triggers featureClicked exactly once, by the
\* instance owning the clicked element, clickable or not; on a clickable
\* instance a click on an unselected feature B while A is selected triggers
\* featureUnselected for A, featureSelected for B and featureClicked for B, in
\* that order; a type instance never triggers featureSelected or
\* featureUnselected.
C8_Step ==
    /\ \A k \in DOMAIN events' :
           events'[k].name \in {"featureSelected", "featureUnselected"}
               => ~IsType(instanceArray'[events'[k].source])
    /\ selected' # selected => Len(EventsNamed(events', {"featureClicked"})) = 1
    /\ \A k \in DOMAIN events' :
           LET e == events'[k]
               cur == instanceArray[e.source].currentSelectedFeature
           IN  e.name = "featureClicked" =>
                   /\ Len(EventsNamed(events', {"featureClicked"})) = 1
                   /\ Paints(instanceArray[e.source], e.feature)
                   /\ (/\ instanceArray[e.source].clickable = TRUE
                       /\ cur # UndefinedFeature
                       /\ selected[e.feature] = FALSE
                       /\ e.feature # cur)
                      => events' = <<[name |-> "featureUnselected", source |-> e.source, feature |-> cur],
                                     [name |-> "featureSelected", source |-> e.source, feature |-> e.feature],
                                     e>>

C8_ClickEvents == [][C8_Step]_vars

\* a click on the category track moved the selection from A to B
C8_Witness ==
    \E c \in Categories :
        /\ instanceArray[c].clickable = TRUE
        /\ Len(events) = 3
        /\ events[1].name = "featureUnselected"
        /\ events[3].name = "featureClicked" /\ events[3].source = c
        /\ events[1].feature # events[3].feature

\* C16: while an instance is zoomed in, the horizontal translation of its
\* feature group lies between -xScale(sequence length - visible amino acids)
\* and 0 after every translate(moveToAA): it is never positive, for every
\* sequence length and every moveToAA.
C16_TranslationInRange ==
    \A i \in DOMAIN instanceArray :
        instanceArray[i].zoomed = TRUE =>
            /\ instanceArray[i].xPan <= 0
            /\ instanceArray[i].xPan # 0 =>
                   FirstMaxVisiblePixel(instanceArray[i]) <= instanceArray[i].xPan


(***************************************************************************)
(* Part II. FeaturesViewer.prototype.highlightRegion                       *)
(*                                                                         *)
(* fv.sequenceLength   fv.sequence.length ("" until the first response)    *)
(* fv.highlight        fv.highlight, NoHighlight while it is not set       *)
(* fv.selectedFeature  fv.selectedFeature, 0 for undefined                 *)
(* fv.domain           fv.xScale.domain(), the visible positions           *)
(* fv.dispatched       the events the last call dispatched, in order       *)
(* fv.call             history: the last call, its arguments and the       *)
(*                     visible positions when it was made                  *)
(***************************************************************************)

NoHighlight == [begin |-> 0, end |-> 0, type |-> "none"]
\* the end argument: a number, or omitted
EndArgs == [given : {TRUE}, value : (0 - 1)..(MaxFvSeqLen + 1)] \cup {[given |-> FALSE, value |-> 0]}
BeginArgs == (0 - 1)..(MaxFvSeqLen + 1)
NoArgs == [op |-> "none", begin |-> 0, end |-> [given |-> FALSE, value |-> 0],
           domain |-> <<0, 0>>]

InitFV ==
    /\ \E L \in {0, MaxFvSeqLen} :
         fv = [sequenceLength |-> L,
               highlight |-> NoHighlight,
               selectedFeature |-> 0,
               domain |-> <<1, L + 1>>,
               dispatched |-> <<>>,
               call |-> NoArgs]
    /\ instanceArray = <<>>
    /\ protoInstances = <<>>
    /\ selected = [f \in Features |-> FALSE]
    /\ seqLen = 0
    /\ events = <<>>
    /\ before = NoBefore
    /\ lastOpenClose = [i \in 1..MaxInstances |-> "none"]

\* begin = begin < 1 ? 1 : begin   (line 473)
NewBegin(begin) == IF begin < 1 THEN 1 ELSE begin

\* faulty variant: end is not lowered to the sequence length
NewEndNoClamp(begin, end, length) ==
    IF end.given /\ end.value # 0 THEN end.value ELSE begin

\* end = end ? (end > fv.sequence.length ? fv.sequence.length : end) : begin
\* (lines 474-476): an end that is omitted or 0 is falsy
NewEnd(begin, end, length) ==
    IF end.given /\ end.value # 0
    THEN IF end.value > length THEN length ELSE end.value
    ELSE begin

\* ViewerHelper.deselectFeature(fv): clears the selected feature
DeselectFeature(v) ==
    [v EXCEPT !.selectedFeature = 0,
              !.dispatched = IF v.selectedFeature # 0
                             THEN Append(@, [name |-> "featureDeselected", begin |-> 0, end |-> 0])
                             ELSE @]

\* ZoomingBehaviour.zoomOut(fv): back to the whole sequence
ZoomOut(v) == [v EXCEPT !.domain = <<1, v.sequenceLength + 1>>]

\* faulty variant: every valid call zooms out
HighlightIfValidZoomOutAlways(v, begin, end) ==
    IF 1 <= begin /\ begin <= end /\ end <= v.sequenceLength
    THEN [ZoomOut(DeselectFeature(v)) EXCEPT
            !.highlight = [begin |-> begin, end |-> end, type |-> "continuous"],
            !.dispatched = Append(@, [name |-> "regionHighlighted", begin |-> begin, end |-> end])]
    ELSE v

\* the body of highlightRegion after the two assignments (lines 477-486);
\* xScale is increasing, so xScale(a) > xScale(b) exactly when a > b
HighlightIfValid(v, begin, end) ==
    IF 1 <= begin /\ begin <= end /\ end <= v.sequenceLength
    THEN LET v1 == DeselectFeature(v)
             v2 == [v1 EXCEPT !.highlight = [begin |-> begin, end |-> end, type |-> "continuous"]]
             v3 == IF v2.domain[1] > begin \/ end > v2.domain[2] THEN ZoomOut(v2) ELSE v2
         IN  [v3 EXCEPT !.dispatched =
                 Append(@, [name |-> "regionHighlighted", begin |-> begin, end |-> end])]
    ELSE v

\* fv.highlightRegion(begin, end)
HighlightRegion(begin, end) ==
    /\ fv' = HighlightIfValid(
                 [fv EXCEPT !.dispatched = <<>>,
                            !.call = [op |-> "highlightRegion", begin |-> begin,
                                      end |-> end, domain |-> fv.domain]],
                 NewBegin(begin),
                 NewEnd(NewBegin(begin), end, fv.sequenceLength))
    /\ UNCHANGED <<instanceArray, protoInstances, selected, seqLen, events, before, lastOpenClose>>

\* a feature of the viewer gets selected (ViewerHelper.selectFeature)
FvSelectFeature(k) ==
    /\ fv.sequenceLength > 0
    /\ fv' = [fv EXCEPT !.selectedFeature = k,
                        !.dispatched = <<[name |-> "featureSelected", begin |-> 0, end |-> 0]>>,
                        !.call = NoArgs]
    /\ UNCHANGED <<instanceArray, protoInstances, selected, seqLen, events, before, lastOpenClose>>

\* the user zooms or pans the viewer to the positions d0..d1 (ZoomingBehaviour)
FvZoomTo(d0, d1) ==
    /\ 1 <= d0 /\ d0 < d1 /\ d1 <= fv.sequenceLength + 1
    /\ fv' = [fv EXCEPT !.domain = <<d0, d1>>, !.dispatched = <<>>, !.call = NoArgs]
    /\ UNCHANGED <<instanceArray, protoInstances, selected, seqLen, events, before, lastOpenClose>>

NextFV ==
    \/ \E b \in BeginArgs, e \in EndArgs : HighlightRegion(b, e)
    \/ \E k \in 1..NumFvFeatures : FvSelectFeature(k)
    \/ \E d0 \in 1..MaxFvSeqLen, d1 \in 2..(MaxFvSeqLen + 1) : FvZoomTo(d0, d1)

SpecFV == InitFV /\ [][NextFV]_vars

(***************************************************************************)
(* Claims about highlightRegion                                            *)
(***************************************************************************)

RegionEvents(v) == SelectSeq(v.dispatched, LAMBDA e : e.name = "regionHighlighted")

\* the range the call is said to use: begin raised to 1, end lowered to the
\* sequence length, begin for an end that is omitted
SaidBegin(v) == IF v.call.begin < 1 THEN 1 ELSE v.call.begin
SaidEnd(v) ==
    IF ~v.call.end.given THEN SaidBegin(v)
    ELSE IF v.call.end.value > v.sequenceLength THEN v.sequenceLength
    ELSE v.call.end.value
SaidValid(v) == 1 <= SaidBegin(v) /\ SaidBegin(v) <= SaidEnd(v) /\ SaidEnd(v) <= v.sequenceLength

\* C9: after highlightRegion(begin, end) whose range, with begin raised to 1,
\* end lowered to the sequence length and an omitted end replaced by begin,
\* satisfies 1 <= begin <= end <= sequence length, fv.highlight is that range
\* with type 'continuous', no feature is selected and regionHighlighted was
\* dispatched exactly once, with that range; every fv.highlight set lies
\* inside the sequence.
C9_HighlightClamped ==
    /\ (fv.call.op = "highlightRegion" /\ SaidValid(fv)) =>
           /\ fv.highlight = [begin |-> SaidBegin(fv), end |-> SaidEnd(fv), type |-> "continuous"]
           /\ fv.selectedFeature = 0
           /\ RegionEvents(fv) =
                  <<[name |-> "regionHighlighted", begin |-> SaidBegin(fv), end |-> SaidEnd(fv)]>>
    /\ fv.highlight # NoHighlight =>
           /\ 1 <= fv.highlight.begin
           /\ fv.highlight.begin <= fv.highlight.end
           /\ fv.highlight.end <= fv.sequenceLength

\* a call with begin below 1 and end above the sequence length, made while a
\* feature was selected
C9_Witness ==
    /\ fv.call.op = "highlightRegion"
    /\ fv.call.begin < 1
    /\ fv.call.end.given /\ fv.call.end.value > fv.sequenceLength
    /\ fv.highlight = [begin |-> 1, end |-> fv.sequenceLength, type |-> "continuous"]
    /\ Len(fv.dispatched) = 2

\* C10: a highlightRegion call whose range is invalid after clamping (begin
\* greater than end, or begin greater than the sequence length) changes
\* neither fv.highlight nor the selected feature nor the visible domain and
\* dispatches no regionHighlighted event.
C10_Step ==
    (fv'.call.op = "highlightRegion" /\ ~SaidValid(fv')) =>
        /\ fv'.highlight = fv.highlight
        /\ fv'.selectedFeature = fv.selectedFeature
        /\ fv'.domain = fv.domain
        /\ RegionEvents(fv') = <<>>

C10_InvalidRangeNoOp == [][C10_Step]_vars

\* C15: a highlightRegion call that highlights a region zooms the viewer out
\* when the region begins before the start or ends after the end of the
\* visible domain, and only then: a region inside the visible domain leaves
\* the domain as it was.
C15_ZoomOutIffOutside ==
    (fv.call.op = "highlightRegion" /\ RegionEvents(fv) # <<>>) =>
        LET r == RegionEvents(fv)[1]
            visible == fv.call.domain
        IN  IF r.begin < visible[1] \/ r.end > visible[2]
            THEN fv.domain = <<1, fv.sequenceLength + 1>> /\ fv.domain # visible
            ELSE fv.domain = visible

\* a region beginning before the visible domain was highlighted
C15_Witness ==
    /\ fv.call.op = "highlightRegion"
    /\ RegionEvents(fv) # <<>>
    /\ RegionEvents(fv)[1].begin < fv.call.domain[1]
    /\ fv.domain = <<1, fv.sequenceLength + 1>>


(***************************************************************************)
(* Part III. FeaturesViewer.prototype.selectFeature                        *)
(*                                                                         *)
(* fv.data             fv.data: the categories [name, features], in the    *)
(*                     order their responses arrived                       *)
(* fv.categories       the names of the categories of fv.categories        *)
(* fv.hidden           internalId of the elements carrying the class       *)
(*                     up_pftv_variant_hidden                              *)
(* fv.selectedFeature  internalId of fv.selectedFeature, 0 for undefined   *)
(* fv.dispatched       the events the last call dispatched, in order       *)
(* fv.returned         internalId of the feature the last call returned,   *)
(*                     0 for undefined                                     *)
(* fv.call             history: the last call, its arguments and the       *)
(*                     selected feature when it was made                   *)
(***************************************************************************)

\* positions of the features and of the requests are drawn from 1..MaxSelPos
MaxSelPos == 2

\* an alternative sequence that is undefined
NoAlt == "undefined"
NoFeature == [internalId |-> 0, type |-> "none", begin |-> 0, end |-> 0,
              alt |-> NoAlt, variants |-> <<>>]

\* String.prototype.toUpperCase on the strings of the model
ToUpperCase(str) ==
    CASE str = "domain" -> "DOMAIN"
      [] str = "mutagen" -> "MUTAGEN"
      [] str = "a" -> "A"
      [] OTHER -> str

\* begin and end of a feature of the data; end 0 stands for a feature without end
Spans == {sp \in [begin : 1..MaxSelPos, end : 0..MaxSelPos] : sp.end = 0 \/ sp.begin <= sp.end}

PlainFeature(id, type, sp, alt) ==
    [internalId |-> id, type |-> type, begin |-> sp.begin, end |-> sp.end,
     alt |-> alt, variants |-> <<>>]

\* the features the first category can hold: a DOMAIN or a CONFLICT
FirstFeatures ==
    {PlainFeature(1, "DOMAIN", sp, NoAlt) : sp \in Spans}
        \cup {PlainFeature(1, "CONFLICT", sp, "A") : sp \in Spans}

\* the features the second category can hold: a MUTAGEN, or a VARIANT position
\* holding one variant
SecondFeatures ==
    {PlainFeature(2, "MUTAGEN", sp, "A") : sp \in Spans}
        \cup {[PlainFeature(3, "VARIANT", sp, NoAlt) EXCEPT
                 !.variants = <<PlainFeature(2, "VARIANT", sp, "A")>>] : sp \in Spans}

\* the arguments of selectFeature
FtTypeArgs == {"domain", "mutagen", "CONFLICT", "VARIANT", "REGION"}
AltArgs == {NoAlt, "a"}
NoSelectCall == [op |-> "none", ftType |-> "", start |-> 0, end |-> 0, alt |-> NoAlt,
                 selectedFeature |-> 0]

\* the viewer after loadSources has drawn two categories (lines 326-328 and
\* drawCategories: every category of fv.data is in fv.categories)
InitSel ==
    /\ \E f1 \in FirstFeatures, f2 \in SecondFeatures :
         fv = [data |-> <<[name |-> "FIRST", features |-> <<f1>>],
                          [name |-> "SECOND", features |-> <<f2>>]>>,
               categories |-> {"FIRST", "SECOND"},
               hidden |-> {},
               selectedFeature |-> 0,
               dispatched |-> <<>>,
               returned |-> 0,
               call |-> NoSelectCall]
    /\ instanceArray = <<>>
    /\ protoInstances = <<>>
    /\ selected = [f \in Features |-> FALSE]
    /\ seqLen = 0
    /\ events = <<>>
    /\ before = NoBefore
    /\ lastOpenClose = [i \in 1..MaxInstances |-> "none"]

\* var ftEnd = feature.end ? feature.end : feature.begin   (lines 254, 257)
FtEnd(feature) == IF feature.end # 0 THEN feature.end ELSE feature.begin

\* FeaturesViewer.prototype.getCategoryTitle: the name of the first category
\* of fv.data with a feature of the type, "undefined" without one
GetCategoryTitle(v, type) ==
    LET has == {c \in DOMAIN v.data :
                   \E k \in DOMAIN v.data[c].features : v.data[c].features[k].type = type}
    IN  IF has = {} THEN "undefined"
        ELSE v.data[CHOOSE c \in has : \A d \in has : c <= d].name

\* the test _.find applies to the variants of a feature (lines 256-260)
VariantFound(variant, begin, end, altSequence) ==
    /\ variant.begin = begin
    /\ FtEnd(variant) = end
    /\ variant.alt = altSequence

\* the test the inner _.find of findFeature applies to a feature (lines 253-271)
FeatureFound(feature, ftType, begin, end, altSequence) ==
    IF feature.variants # <<>> /\ feature.type = "VARIANT"
    THEN \E k \in DOMAIN feature.variants :
             VariantFound(feature.variants[k], begin, end, altSequence)
    ELSE IF feature.type \in {"CONFLICT", "MUTAGEN"}
    THEN feature.begin = begin /\ FtEnd(feature) = end /\ feature.alt = altSequence
    ELSE feature.type = ftType /\ feature.begin = begin /\ FtEnd(feature) = end

\* the first of the indexes at which _.find finds what it looks for; 0 for none
FirstIndex(hits) ==
    IF hits = {} THEN 0 ELSE CHOOSE k \in hits : \A j \in hits : k <= j

\* the first feature of a category the test of findFeature finds; 0 for none
FoundInCategory(category, ftType, begin, end, altSequence) ==
    FirstIndex({k \in DOMAIN category.features :
                   FeatureFound(category.features[k], ftType, begin, end, altSequence)})

\* findFeature(fv, ftType, begin, end, altSequence): the first feature found in
\* the first category holding one, its variant when it was found by a variant
FindFeature(v, ftType, begin, end, altSequence) ==
    LET c == FirstIndex({d \in DOMAIN v.data :
                            FoundInCategory(v.data[d], ftType, begin, end, altSequence) # 0})
    IN  IF c = 0 THEN NoFeature
        ELSE LET lookup == v.data[c].features[
                               FoundInCategory(v.data[c], ftType, begin, end, altSequence)]
             IN  IF lookup.variants # <<>> /\ lookup.type = "VARIANT"
                 THEN lookup.variants[
                          FirstIndex({k \in DOMAIN lookup.variants :
                                         VariantFound(lookup.variants[k], begin, end,
                                                      altSequence)})]
                 ELSE lookup

\* ViewerHelper.selectFeature(feature, elem, fv): the feature becomes the
\* selected one
ViewerHelperSelectFeature(v, feature) ==
    [v EXCEPT !.selectedFeature = feature.internalId,
              !.dispatched = Append(@, [name |-> "featureSelected", ftType |-> feature.type,
                                        begin |-> feature.begin, end |-> feature.end])]

NotFoundEvent(ftType, start, end) ==
    [name |-> "notFound", ftType |-> ftType, begin |-> start, end |-> end]

\* fv.selectFeature(ftType, start, end, altSequence)
SelectFeature(ftType0, start, end, altSequence0) ==
    LET ftType == ToUpperCase(ftType0)
        altSequence == IF altSequence0 # NoAlt THEN ToUpperCase(altSequence0) ELSE altSequence0
        v == [fv EXCEPT !.dispatched = <<>>,
                        !.call = [op |-> "selectFeature", ftType |-> ftType0, start |-> start,
                                  end |-> end, alt |-> altSequence0,
                                  selectedFeature |-> fv.selectedFeature]]
        catTitle == GetCategoryTitle(v, ftType)
        category == catTitle \in v.categories
        feature == FindFeature(v, ftType, start, end, altSequence)
        notFound == [v EXCEPT !.dispatched = <<NotFoundEvent(ftType, start, end)>>,
                              !.returned = 0]
    IN  /\ fv' = IF feature = NoFeature THEN notFound
                 ELSE IF category /\ feature.internalId \notin v.hidden
                 THEN [(IF v.selectedFeature # feature.internalId
                        THEN ViewerHelperSelectFeature(v, feature)
                        ELSE [v EXCEPT !.dispatched =
                                 <<[name |-> "featureSelected", ftType |-> feature.type,
                                    begin |-> feature.begin, end |-> feature.end]>>])
                         EXCEPT !.returned = feature.internalId]
                 ELSE notFound
        /\ UNCHANGED <<instanceArray, protoInstances, selected, seqLen, events, before,
                       lastOpenClose>>

\* the variant filter of the page hides or shows the element of a variant
ToggleHidden(id) ==
    /\ \E c \in DOMAIN fv.data : \E k \in DOMAIN fv.data[c].features :
           \E j \in DOMAIN fv.data[c].features[k].variants :
               fv.data[c].features[k].variants[j].internalId = id
    /\ fv' = [fv EXCEPT !.hidden = IF id \in @ THEN @ \ {id} ELSE @ \cup {id},
                        !.dispatched = <<>>,
                        !.call = NoSelectCall,
                        !.returned = 0]
    /\ UNCHANGED <<instanceArray, protoInstances, selected, seqLen, events, before,
                   lastOpenClose>>

NextSel ==
    \/ \E t \in FtTypeArgs, b \in 1..MaxSelPos, e \in 1..MaxSelPos, a \in AltArgs :
           SelectFeature(t, b, e, a)
    \/ \E id \in 1..3 : ToggleHidden(id)

SpecSel == InitSel /\ [][NextSel]_vars

(***************************************************************************)
(* Claims about selectFeature                                              *)
(***************************************************************************)

\* the features and variants of the data, each with the name of its category
SelCandidates(v) ==
    UNION {UNION {{[feature |-> v.data[c].features[k], category |-> v.data[c].name]}
                     \cup {[feature |-> v.data[c].features[k].variants[j],
                            category |-> v.data[c].name] :
                              j \in DOMAIN v.data[c].features[k].variants} :
                  k \in DOMAIN v.data[c].features} : c \in DOMAIN v.data}

\* does the feature match the request of the last call: its type (whatever
\* the case of the letters), its begin and end and, for the types that carry
\* one, its alternative sequence
MatchesCall(v, feature) ==
    /\ feature.type = ToUpperCase(v.call.ftType)
    /\ feature.begin = v.call.start
    /\ FtEnd(feature) = v.call.end
    /\ feature.variants = <<>>
    /\ feature.type \in {"CONFLICT", "MUTAGEN", "VARIANT"} =>
           feature.alt = (IF v.call.alt # NoAlt THEN ToUpperCase(v.call.alt) ELSE NoAlt)

SelNotFound(v) == SelectSeq(v.dispatched, LAMBDA e : e.name = "notFound")

\* C11: selectFeature(ftType, start, end, altSequence) returns the matching
\* feature and dispatches no notFound when a matching feature that is not
\* hidden exists in a drawn category; in every other case it returns
\* undefined, dispatches notFound exactly once with the requested type, begin
\* and end, and leaves fv.selectedFeature unchanged.
C11_SelectFeatureOrNotFound ==
    fv.call.op = "selectFeature" =>
        LET good == {x \in SelCandidates(fv) :
                        /\ MatchesCall(fv, x.feature)
                        /\ x.feature.internalId \notin fv.hidden
                        /\ x.category \in fv.categories}
        IN  IF good # {}
            THEN /\ fv.returned \in {x.feature.internalId : x \in good}
                 /\ SelNotFound(fv) = <<>>
            ELSE /\ fv.returned = 0
                 /\ SelNotFound(fv) =
                        <<NotFoundEvent(ToUpperCase(fv.call.ftType), fv.call.start, fv.call.end)>>
                 /\ fv.selectedFeature = fv.call.selectedFeature


(***************************************************************************)
(* Part IV. fv.load and loadSources                                        *)
(*                                                                         *)
(* fv.customConfig     is opts.customConfig given                          *)
(* fv.config           the configuration request: "none", "pending",       *)
(*                     "done" or "failed"                                  *)
(* fv.sources          the number of data sources of Constants             *)
(* fv.exclusions       the sources whose category is in opts.exclusions    *)
(* fv.loader[i]        the request of source i: "none" while there is      *)
(*                     none, then "pending", "resolved" or "rejected"      *)
(* fv.delegate[i]      is delegates[i] resolved                            *)
(* fv.sequence         fv.sequence: the source it came from, 0 for ""      *)
(* fv.accession, fv.maxPos, fv.xDomain   the other global parameters       *)
(* fv.data             fv.data.length                                      *)
(* fv.dispatched       the events dispatched since the load began          *)
(* fv.cleared          has the no-data check emptied opts.el               *)
(* fv.checks, fv.loadZoomRuns, fv.firstResolved   history: the runs of     *)
(*                     the no-data check and of loadZoom, and the source   *)
(*                     of the first response that succeeded                *)
(***************************************************************************)

\* the data sources number at most NumSources
NumSources == 3

\* the response d of source i: a sequence and an accession of its own
ResponseOf(i) == [sequence |-> i, accession |-> i, length |-> i]

\* the viewer the constructor has set up when it calls fv.load() (340-352)
NewViewer(customConfig, sources, exclusions) ==
    [customConfig |-> customConfig,
     config |-> "none",
     sources |-> sources,
     exclusions |-> exclusions,
     loader |-> [i \in 1..sources |-> "none"],
     delegate |-> [i \in 1..sources |-> FALSE],
     sequence |-> 0,
     accession |-> 0,
     maxPos |-> 0,
     xDomain |-> <<0, 0>>,
     data |-> 0,
     dispatched |-> <<>>,
     cleared |-> FALSE,
     checks |-> 0,
     loadZoomRuns |-> 0,
     firstResolved |-> 0]

\* FeaturesViewer.prototype.loadZoom(d)
LoadZoom(v, d) ==
    [v EXCEPT !.sequence = d.sequence,
              !.accession = d.accession,
              !.maxPos = d.length,
              !.xDomain = <<1, d.length + 1>>,
              !.loadZoomRuns = @ + 1]

\* faulty variant: every response sets the global parameters
NeedsLoadZoomAlways(v) == TRUE

\* !fv.sequence   (line 298)
NeedsLoadZoom(v) == v.sequence = 0

Loaders(v) == {i \in 1..v.sources : v.loader[i] # "none"}
Rejected(v) == {i \in Loaders(v) : v.loader[i] = "rejected"}

\* faulty variant: one rejected request is taken for no data retrieved
AllRejectedAny(v) == Rejected(v) # {}

\* rejected.length === loaders.length   (lines 383 and 386)
AllRejected(v) == Cardinality(Rejected(v)) = Cardinality(Loaders(v))

\* the handler of jQuery.when(delegates).done (lines 379-394)
NoDataCheck(v) ==
    LET v1 == [v EXCEPT !.checks = @ + 1]
    IN  IF AllRejected(v1) \/ v1.data = 0
        THEN [v1 EXCEPT !.cleared = TRUE,
                        !.dispatched = Append(@, IF AllRejected(v1) THEN "noDataRetrieved"
                                                 ELSE "noDataAvailable")]
        ELSE v1

\* jQuery.when.apply(null, delegates): resolved, once, when every delegate is
WhenDelegates(v) ==
    IF v.checks = 0 /\ \A i \in 1..v.sources : v.delegate[i]
    THEN NoDataCheck(v)
    ELSE v

\* loadSources up to the requests: a request for every source that is not
\* excluded, the delegate of an excluded source resolved (lines 288-293, 333-335)
LoadSources(v) ==
    [v EXCEPT !.loader = [i \in 1..v.sources |->
                             IF i \in v.exclusions THEN "none" ELSE "pending"],
              !.delegate = [i \in 1..v.sources |-> i \in v.exclusions]]

\* fv.load()
Load(v) ==
    IF v.customConfig
    THEN WhenDelegates([v EXCEPT !.config = "pending"])
    ELSE WhenDelegates(LoadSources(v))

InitLoad ==
    /\ \E customConfig \in BOOLEAN, sources \in 0..NumSources :
         \E exclusions \in SUBSET (1..sources) :
             fv = Load(NewViewer(customConfig, sources, exclusions))
    /\ instanceArray = <<>>
    /\ protoInstances = <<>>
    /\ selected = [f \in Features |-> FALSE]
    /\ seqLen = 0
    /\ events = <<>>
    /\ before = NoBefore
    /\ lastOpenClose = [i \in 1..MaxInstances |-> "none"]

\* configLoader.done (lines 365-369)
ConfigDone ==
    /\ fv.config = "pending"
    /\ fv' = WhenDelegates(LoadSources([fv EXCEPT !.config = "done"]))
    /\ UNCHANGED <<instanceArray, protoInstances, selected, seqLen, events, before,
                   lastOpenClose>>

\* configLoader.fail (lines 370-374)
ConfigFail ==
    /\ fv.config = "pending"
    /\ fv' = [fv EXCEPT !.config = "failed",
                        !.dispatched = Append(@, "notConfigRetrieved")]
    /\ UNCHANGED <<instanceArray, protoInstances, selected, seqLen, events, before,
                   lastOpenClose>>

\* the request of source i succeeds with response ResponseOf(i), whose features
\* (after grouping and exclusions) are some or none: dataLoader.done, then
\* always (lines 294-331)
ResponseDone(i, hasFeatures) ==
    /\ i \in 1..fv.sources
    /\ fv.loader[i] = "pending"
    /\ LET v0 == [fv EXCEPT !.loader[i] = "resolved",
                            !.firstResolved = IF @ = 0 THEN i ELSE @]
           v1 == IF NeedsLoadZoom(v0) THEN LoadZoom(v0, ResponseOf(i)) ELSE v0
           v2 == [v1 EXCEPT !.data = @ + (IF hasFeatures THEN 1 ELSE 0),
                            !.dispatched = Append(@, "ready")]
       IN  fv' = WhenDelegates([v2 EXCEPT !.delegate[i] = TRUE])
    /\ UNCHANGED <<instanceArray, protoInstances, selected, seqLen, events, before,
                   lastOpenClose>>

\* the request of source i fails: dataLoader.fail, then always (329-331)
ResponseFail(i) ==
    /\ i \in 1..fv.sources
    /\ fv.loader[i] = "pending"
    /\ fv' = WhenDelegates([fv EXCEPT !.loader[i] = "rejected", !.delegate[i] = TRUE])
    /\ UNCHANGED <<instanceArray, protoInstances, selected, seqLen, events, before,
                   lastOpenClose>>

NextLoad ==
    \/ ConfigDone
    \/ ConfigFail
    \/ \E i \in 1..NumSources, hasFeatures \in BOOLEAN : ResponseDone(i, hasFeatures)
    \/ \E i \in 1..NumSources : ResponseFail(i)

SpecLoad == InitLoad /\ [][NextLoad]_vars

(***************************************************************************)
(* Claims about the load                                                   *)
(***************************************************************************)

LoadEvents(v, names) == SelectSeq(v.dispatched, LAMBDA e : e \in names)
Resolved(v) == {i \in Loaders(v) : v.loader[i] = "resolved"}

\* C12: in a load without custom configuration the no-data check runs only
\* after every request of a source that is not excluded has settled, whatever
\* the order of the responses; it dispatches at most one of noDataRetrieved
\* and noDataAvailable, at most once, and neither of them, leaving the element
\* as it is, when a request succeeded and fv.data is not empty.
C12_NoDataCheckAfterAll ==
    ~fv.customConfig =>
        /\ fv.checks <= 1
        /\ fv.checks = 1 =>
               \A i \in (1..fv.sources) \ fv.exclusions :
                   fv.loader[i] \in {"resolved", "rejected"}
        /\ Len(LoadEvents(fv, {"noDataRetrieved", "noDataAvailable"})) <= fv.checks
        /\ fv.cleared => fv.checks = 1
        /\ (Resolved(fv) # {} /\ fv.data > 0) =>
               /\ LoadEvents(fv, {"noDataRetrieved", "noDataAvailable"}) = <<>>
               /\ ~fv.cleared

\* the check has run after one request failed and another brought features
C12_Witness ==
    /\ ~fv.customConfig
    /\ fv.checks = 1
    /\ Rejected(fv) # {}
    /\ Resolved(fv) # {}
    /\ fv.data > 0

\* C13: loadZoom runs at most once during a load, and once as soon as a
\* response has succeeded; fv.sequence, fv.accession, fv.maxPos and the x
\* scale are those of the first response that succeeded, whatever the order
\* of the responses, and no later response overwrites them.
C13_FirstResponseSetsGlobals ==
    /\ fv.loadZoomRuns <= 1
    /\ fv.firstResolved = 0 => fv.loadZoomRuns = 0 /\ fv.sequence = 0
    /\ fv.firstResolved # 0 =>
           LET d == ResponseOf(fv.firstResolved)
           IN  /\ fv.loadZoomRuns = 1
               /\ fv.sequence = d.sequence
               /\ fv.accession = d.accession
               /\ fv.maxPos = d.length
               /\ fv.xDomain = <<1, d.length + 1>>

\* the response of the first source arrived after that of another source
C13_Witness ==
    /\ fv.firstResolved > 1
    /\ fv.loader[1] = "resolved"
    /\ Cardinality(Resolved(fv)) >= 2

\* C14: with opts.customConfig no data source is requested before the
\* configuration has been retrieved; when the configuration request fails,
\* notConfigRetrieved is dispatched exactly once, no data source is ever
\* requested and none of ready, noDataRetrieved and noDataAvailable is ever
\* dispatched.
C14_ConfigFirst ==
    fv.customConfig =>
        /\ fv.config # "done" => Loaders(fv) = {}
        /\ Len(LoadEvents(fv, {"notConfigRetrieved"})) = (IF fv.config = "failed" THEN 1 ELSE 0)
        /\ fv.config = "failed" =>
               /\ Loaders(fv) = {}
               /\ LoadEvents(fv, {"ready", "noDataRetrieved", "noDataAvailable"}) = <<>>

====
